---------------------------- MODULE Spec2Model ----------------------------
(***************************************************************************)
(* A model of timecard (src/timecard/timecard.py): metric cells, the       *)
(* ordered metric mapping, the total+rate composite, the timing sampler    *)
(* and the table that renders lines and appends csv rows.                  *)
(*                                                                         *)
(* Numbers.  Python values are records [t, n, d]: t is the Python type     *)
(* ("none", "bool", "int", "float"), and n/d the value as a fraction in    *)
(* lowest terms (d = 1 for bool and int).  Floats are modelled as exact    *)
(* rationals.  Durations and clock readings are counted in tenths of a     *)
(* second.                                                                 *)
(***************************************************************************)
EXTENDS Integers, Sequences, FiniteSets, TLC

VARIABLES
    timeit,          \* SpecTimeit: the Timeit metric
    scope,           \* SpecTimeit: the open `with timeit(exception_ok)` block
    exits,           \* SpecTimeit: history of scope exits since the last reset:
                     \* the duration, and whether an Exception ended a scope
                     \* entered without exception_ok=True
    outcome,         \* SpecTimeit: what the caller saw at the last scope exit
    rate,            \* SpecRate: the TotalAndSec / Traffic metric
    now,             \* SpecRate: the clock, time(), in tenths of a second
    rateop,          \* SpecRate: the last operation and what it read
    metrics,         \* SpecMap: key -> entry of the _OrderedMetrics mapping
    order,           \* SpecMap: the keys in insertion order
    mapop,           \* SpecMap: the last operation and its result
    created,         \* SpecMap: how many Metric objects were constructed
    cell,            \* SpecWidth: a scalar metric's width and render caches
    cellop,          \* SpecWidth: the last render call
    table,           \* SpecTable: the metrics attached to the Timecard
    csvfile,         \* SpecTable: rows of the csv file
    commits,         \* SpecTable: history of the metric values at each commit
    last_line_fixed, \* SpecTable: Timecard._last_line_fixed
    tableop          \* SpecTable: the last operation

vars == <<timeit, scope, exits, outcome, rate, now, rateop, metrics, order,
          mapop, created, cell, cellop, table, csvfile, commits, last_line_fixed,
          tableop>>

timeitVars == <<timeit, scope, exits, outcome>>
rateVars   == <<rate, now, rateop>>
mapVars    == <<metrics, order, mapop, created>>
widthVars  == <<cell, cellop>>
tableVars  == <<table, csvfile, commits, last_line_fixed, tableop>>

\* What the operations of one part of the library leave alone.
notTimeit == <<rateVars, mapVars, widthVars, tableVars>>
notRate   == <<timeitVars, mapVars, widthVars, tableVars>>
notMap    == <<timeitVars, rateVars, widthVars, tableVars>>
notWidth  == <<timeitVars, rateVars, mapVars, tableVars>>
notTable  == <<timeitVars, rateVars, mapVars, widthVars>>

---------------------------------------------------------------------------
(* Bounds of the model.                                                    *)

\* Timeit limits are drawn from 1..MaxLimit (tenths of a second).
MaxLimit == 2
\* A measured duration is drawn from 0..MaxDelta (tenths of a second).
MaxDelta == 2
\* Scope exits recorded in the history between two resets.
MaxExits == 3
\* The clock of the total+rate model runs from StartTime to MaxTime.
MaxTime == 20
\* A total is kept within 0..MaxTotal.
MaxTotal == 2
\* Widths, title lengths and subtitle lengths of a scalar metric.
MaxWidth == 7
MaxTitleLen == 9
MaxSubtitleLen == 4
\* Metric objects constructed in the mapping model.
MaxMetrics == 2
\* A cell of the mapping model is accumulated while |value| <= MaxValue.
MaxValue == 1
\* The table model: `count += 1` at most MaxCount times, at most
\* MaxTableSamples timed scopes, at most MaxRows committed lines in the file.
MaxCount == 1
MaxTableSamples == 2
MaxRows == 2

---------------------------------------------------------------------------
(* Python numbers.                                                         *)

RECURSIVE Gcd(_, _)
Gcd(a, b) == IF b = 0 THEN a ELSE Gcd(b, a % b)

Abs(i) == IF i < 0 THEN -i ELSE i

NoneV == [t |-> "none", n |-> 0, d |-> 1]
IntV(i) == [t |-> "int", n |-> i, d |-> 1]
BoolV(b) == [t |-> "bool", n |-> IF b THEN 1 ELSE 0, d |-> 1]

\* The float n/d (d > 0), in lowest terms.
FloatV(n, d) ==
    LET g == Gcd(Abs(n), d)
    IN  [t |-> "float", n |-> n \div g, d |-> d \div g]

IsNumber(v) == v.t \in {"bool", "int", "float"}

\* float(v) for a number v.
PyFloat(v) == FloatV(v.n, v.d)

\* int(v) for a number v: truncation towards zero.
PyInt(v) == IntV(IF v.n >= 0 THEN v.n \div v.d ELSE -((-v.n) \div v.d))

\* a + b and a - b: a float if either operand is one, an int otherwise.
PyAdd(a, b) ==
    IF a.t = "float" \/ b.t = "float"
    THEN FloatV(a.n * b.d + b.n * a.d, a.d * b.d)
    ELSE IntV(a.n + b.n)

PySub(a, b) ==
    IF a.t = "float" \/ b.t = "float"
    THEN FloatV(a.n * b.d - b.n * a.d, a.d * b.d)
    ELSE IntV(a.n - b.n)

\* a / k for a float a and a positive integer k.
PyDivInt(a, k) == FloatV(a.n, a.d * k)

PyLt(a, b) == a.n * b.d < b.n * a.d
PyLe(a, b) == a.n * b.d <= b.n * a.d

---------------------------------------------------------------------------
(* Timeit: min / average / max and one counter per limit.                  *)

RECURSIVE SeqMax(_)
SeqMax(s) ==
    IF Len(s) = 1 THEN s[1]
    ELSE LET m == SeqMax(Tail(s)) IN IF s[1] >= m THEN s[1] ELSE m

RECURSIVE RemoveFirst(_, _)
RemoveFirst(s, x) ==
    IF s = <<>> THEN <<>>
    ELSE IF s[1] = x THEN Tail(s) ELSE <<s[1]>> \o RemoveFirst(Tail(s), x)

\* The limits kept in the order given.
MutUnsortedLimits(limits) == limits

\* list(reversed(sorted(limits)))
RECURSIVE SortedLimits(_)
SortedLimits(limits) ==
    IF limits = <<>> THEN <<>>
    ELSE LET m == SeqMax(limits)
         IN  <<m>> \o SortedLimits(RemoveFirst(limits, m))

SeqRange(s) == {s[i] : i \in 1..Len(s)}

\* reset without the loop over the limits.
MutTimeitResetKeepsBuckets(t) ==
    [t EXCEPT !.min = NoneV, !.max = NoneV, !.average = NoneV]

\* Timeit.reset
TimeitReset(t) ==
    [t EXCEPT !.min = NoneV, !.max = NoneV, !.average = NoneV,
              !.bucket = [l \in DOMAIN t.bucket |-> 0]]

\* Timeit.__init__: a bucket keyed str(lim) for every limit, then reset().
\* A repeated limit sets an existing key to a Metric, which raises (see
\* SetItem), so only lists of distinct limits construct a Timeit.
TimeitNew(limits) ==
    TimeitReset([limits  |-> SortedLimits(limits),
                 min     |-> NoneV,
                 average |-> NoneV,
                 max     |-> NoneV,
                 bucket  |-> [l \in SeqRange(limits) |-> 0]])

\* for lim in self._limits: if delta >= lim: self[str(lim)] += 1; break
RECURSIVE FirstLimit(_, _)
FirstLimit(limits, delta) ==
    IF limits = <<>> THEN 0
    ELSE IF PyLe(IntV(limits[1]), delta) THEN limits[1]
         ELSE FirstLimit(Tail(limits), delta)

\* TimeitSample with the `elif delta > self.max` branch lost.
MutTimeitSampleNoMax(t, delta) ==
    LET stats ==
            IF t.max = NoneV
            THEN [t EXCEPT !.min = PyFloat(delta), !.average = PyFloat(delta),
                           !.max = PyFloat(delta)]
            ELSE LET mm == IF PyLt(delta, t.min)
                           THEN [t EXCEPT !.min = PyFloat(delta)]
                           ELSE t
                 IN  [mm EXCEPT !.average =
                                    PyFloat(PyDivInt(PyAdd(t.average, delta), 2))]
        hit == FirstLimit(t.limits, delta)
    IN  IF hit = 0 THEN stats
        ELSE [stats EXCEPT !.bucket[hit] = @ + 1]

\* The sampling update of Timeit.__call__ for a measured duration delta.
TimeitSample(t, delta) ==
    LET stats ==
            IF t.max = NoneV
            THEN [t EXCEPT !.min = PyFloat(delta), !.average = PyFloat(delta),
                           !.max = PyFloat(delta)]
            ELSE LET mm == IF PyLt(delta, t.min)
                           THEN [t EXCEPT !.min = PyFloat(delta)]
                           ELSE IF PyLt(t.max, delta)
                                THEN [t EXCEPT !.max = PyFloat(delta)]
                                ELSE t
                 IN  [mm EXCEPT !.average =
                                    PyFloat(PyDivInt(PyAdd(t.average, delta), 2))]
        hit == FirstLimit(t.limits, delta)
    IN  IF hit = 0 THEN stats
        ELSE [stats EXCEPT !.bucket[hit] = @ + 1]

---------------------------------------------------------------------------
(* The scope of Timeit.__call__, a generator under @contextmanager.        *)
(* kind is how the guarded block ended: "return", "exception" (an          *)
(* Exception, caught by `except Exception`), or "base" (a BaseException    *)
(* that is no Exception, such as KeyboardInterrupt, which is not caught).  *)

ExitKinds == {"return", "exception", "base"}

\* The sampling update reached on every exit.
MutExitRecordsAlways(kind, exception_ok) == TRUE

\* Whether control reaches the sampling update in the finally block:
\* `if exc and exception_ok is not True: raise exc` leaves before it.
ExitRecords(kind, exception_ok) ==
    LET exc == (kind = "exception")
    IN  ~(exc /\ exception_ok # TRUE)

\* GenRaises without the final `if exc: raise exc`.
MutGenRaisesSuppress(kind, exception_ok) ==
    IF kind = "exception" /\ exception_ok # TRUE THEN TRUE
    ELSE kind = "base"

\* Whether the generator ends by raising: the early raise, the final
\* `if exc: raise exc`, or an uncaught BaseException passing through.
GenRaises(kind, exception_ok) ==
    LET exc == (kind = "exception")
    IN  IF exc /\ exception_ok # TRUE THEN TRUE
        ELSE IF exc THEN TRUE
        ELSE kind = "base"

\* @contextmanager: an exception thrown into the generator is suppressed
\* only when the generator then stops without raising.
Propagates(kind, exception_ok) ==
    kind # "return" /\ GenRaises(kind, exception_ok)

NoOutcome == [kind |-> "none", exception_ok |-> FALSE, propagated |-> FALSE]

\* All lists of distinct limits over 1..MaxLimit, in any order.
LimitLists ==
    {s \in UNION {[1..k -> 1..MaxLimit] : k \in 0..MaxLimit} :
        \A i, j \in 1..Len(s) : i # j => s[i] # s[j]}

\* `with timeit(exception_ok):` entered.
Enter(exception_ok) ==
    /\ ~scope.active
    /\ scope' = [active |-> TRUE, exception_ok |-> exception_ok]
    /\ UNCHANGED <<timeit, exits, outcome, notTimeit>>

\* The guarded block ends after delta tenths of a second.
Exit(kind, delta) ==
    /\ scope.active
    /\ Len(exits) < MaxExits
    /\ timeit' = IF ExitRecords(kind, scope.exception_ok)
                 THEN TimeitSample(timeit, FloatV(delta, 1))
                 ELSE timeit
    /\ outcome' = [kind |-> kind, exception_ok |-> scope.exception_ok,
                   propagated |-> Propagates(kind, scope.exception_ok)]
    /\ exits' = Append(exits, [delta |-> delta,
                               failed |-> (kind = "exception"
                                           /\ ~scope.exception_ok)])
    /\ scope' = [active |-> FALSE, exception_ok |-> FALSE]
    /\ UNCHANGED notTimeit

\* timeit.reset()
Reset ==
    /\ timeit' = TimeitReset(timeit)
    /\ exits' = <<>>
    /\ UNCHANGED <<scope, outcome, notTimeit>>

TimeitInit ==
    /\ \E limits \in LimitLists : timeit = TimeitNew(limits)
    /\ scope = [active |-> FALSE, exception_ok |-> FALSE]
    /\ exits = <<>>
    /\ outcome = NoOutcome

TimeitIdle ==
    /\ timeit = TimeitNew(<<>>)
    /\ scope = [active |-> FALSE, exception_ok |-> FALSE]
    /\ exits = <<>>
    /\ outcome = NoOutcome

TimeitNext ==
    \/ \E ok \in BOOLEAN : Enter(ok)
    \/ \E kind \in ExitKinds, delta \in 0..MaxDelta : Exit(kind, delta)
    \/ Reset

---------------------------------------------------------------------------
(* _MetricBase.__iadd__ / __isub__ and the value types of the metrics.     *)

\* value_type of a metric class: "int", "float" or "" (none declared).
ValueType(type) ==
    CASE type \in {"Int", "Bytes"} -> "int"
      [] type \in {"Float", "DeltaTime"} -> "float"
      [] OTHER -> ""

\* item.value_type(value) for a number.
Coerce(type, value) ==
    IF ValueType(type) = "int" THEN PyInt(value) ELSE PyFloat(value)

\* _MetricBase.__iadd__ on the cell's value
IAddValue(v, x) == IF v = NoneV THEN x ELSE PyAdd(v, x)

\* _MetricBase.__isub__ on the cell's value
ISubValue(v, x) == IF v = NoneV THEN x ELSE PySub(v, x)

---------------------------------------------------------------------------
(* TotalAndSec and Traffic: a total and its rate per second.               *)

\* td < 0.9 in calc, in tenths of a second
RateGate == 9

\* time() at construction; a clock reading is never 0.
StartTime == 1

RateKinds == {"TotalAndSec", "Traffic"}

\* type_persec: Float for TotalAndSec, Bytes for Traffic
PersecType(kind) == IF kind = "Traffic" THEN "Bytes" ELSE "Float"

\* TotalAndSec.__init__
RateNew(kind, t) ==
    [kind |-> kind, total |-> IntV(0), persec |-> NoneV,
     last_snap |-> IntV(0), last_time |-> t]

\* calc with the `_last_snap` assignment lost.
MutCalcKeepsSnap(r, t) ==
    IF r.last_time = 0
    THEN [r EXCEPT !.last_snap = r.total, !.last_time = t]
    ELSE LET td == t - r.last_time
         IN  IF td < RateGate THEN r
             ELSE [r EXCEPT !.last_time = t,
                            !.persec = Coerce(PersecType(r.kind),
                                FloatV((r.total.n - r.last_snap.n) * 10, td))]

\* TotalAndSec.calc at clock reading t; `self.persec = delta` goes through
\* _OrderedMetrics.__setitem__, which converts delta to the rate cell's
\* value type.  A total difference per td tenths is 10 * difference / td
\* per second.
Calc(r, t) ==
    IF r.last_time = 0
    THEN [r EXCEPT !.last_snap = r.total, !.last_time = t]
    ELSE LET td == t - r.last_time
         IN  IF td < RateGate THEN r
             ELSE [r EXCEPT !.last_snap = r.total,
                            !.last_time = t,
                            !.persec = Coerce(PersecType(r.kind),
                                FloatV((r.total.n - r.last_snap.n) * 10, td))]

\* TotalAndSec.render_value: calc() on a committed render only.
RateRenderValue(r, fix, t) == IF fix THEN Calc(r, t) ELSE r

\* TotalAndSec.reset
RateResetValue(r) == [r EXCEPT !.persec = NoneV]

\* The clock advances.
Tick ==
    /\ now < MaxTime
    /\ now' = now + 1
    /\ rateop' = "tick"
    /\ UNCHANGED <<rate, notRate>>

\* metric += x: TotalAndSec.__iadd__ is `self.total += value`.
RateIAdd(x) ==
    /\ rate.total.n + x <= MaxTotal
    /\ rate' = [rate EXCEPT !.total = IAddValue(@, IntV(x))]
    /\ rateop' = "iadd"
    /\ UNCHANGED <<now, notRate>>

\* metric -= x: TotalAndSec.__isub__ is `self.total += value` too.
RateISub(x) ==
    /\ rate.total.n + x <= MaxTotal
    /\ rate' = [rate EXCEPT !.total = IAddValue(@, IntV(x))]
    /\ rateop' = "isub"
    /\ UNCHANGED <<now, notRate>>

\* metric.total -= x, on the total cell itself.
TotalISub(x) ==
    /\ rate.total.n - x >= 0
    /\ rate' = [rate EXCEPT !.total = ISubValue(@, IntV(x))]
    /\ rateop' = "total_isub"
    /\ UNCHANGED <<now, notRate>>

\* metric.render_value(fix)
RateRender(fix) ==
    /\ rate' = RateRenderValue(rate, fix, now)
    /\ rateop' = IF fix THEN "render_commit" ELSE "render_provisional"
    /\ UNCHANGED <<now, notRate>>

\* metric.reset()
RateReset ==
    /\ rate' = RateResetValue(rate)
    /\ rateop' = "reset"
    /\ UNCHANGED <<now, notRate>>

RateInit ==
    /\ now = StartTime
    /\ \E kind \in RateKinds : rate = RateNew(kind, now)
    /\ rateop = "init"

RateIdle ==
    /\ now = StartTime
    /\ rate = RateNew("TotalAndSec", StartTime)
    /\ rateop = "init"

RateNext ==
    \/ Tick
    \/ \E x \in 1..MaxTotal : RateIAdd(x)
    \/ \E x \in 1..MaxTotal : RateISub(x)
    \/ \E x \in 1..MaxTotal : TotalISub(x)
    \/ \E fix \in BOOLEAN : RateRender(fix)
    \/ RateReset

---------------------------------------------------------------------------
(* _MetricBase.render_title / render_subtitle of a scalar metric.  Strings *)
(* are modelled by their lengths; a cached rendering is the length of its  *)
(* visible text, or -1 while nothing is cached.                            *)

Max(a, b) == IF a >= b THEN a ELSE b

NotRendered == -1

\* render_subtitle that pads every title, not only one wider than the cell.
MutRenderSubtitleAlwaysPads(c) ==
    IF c.rendered_subtitle # NotRendered THEN c
    ELSE LET w  == Max(c.width, c.subtitle_len)
             w2 == Max(w, c.title_len + 2)
         IN  [c EXCEPT !.width = w2, !.rendered_subtitle = Max(w2, c.subtitle_len)]

\* _MetricBase.render_subtitle; str.rjust(width) is max(width, len) long.
RenderSubtitle(c) ==
    IF c.rendered_subtitle # NotRendered THEN c
    ELSE LET w  == Max(c.width, c.subtitle_len)
             w2 == IF w < c.title_len THEN c.title_len + 2 ELSE w
         IN  [c EXCEPT !.width = w2, !.rendered_subtitle = Max(w2, c.subtitle_len)]

\* _MetricBase.render_title; str.center(width) is max(width, len) long.
RenderTitle(c) ==
    IF c.rendered_title # NotRendered THEN c
    ELSE LET c2 == IF c.rendered_subtitle = NotRendered THEN RenderSubtitle(c)
                   ELSE c
         IN  [c2 EXCEPT !.rendered_title = Max(c2.width, c2.title_len)]

\* A metric of a class whose width attribute is class_width.
CellNew(class_width, title_len, subtitle_len) ==
    [class_width |-> class_width, width |-> class_width,
     title_len |-> title_len, subtitle_len |-> subtitle_len,
     rendered_title |-> NotRendered, rendered_subtitle |-> NotRendered]

CallRenderTitle ==
    /\ cell' = RenderTitle(cell)
    /\ cellop' = "render_title"
    /\ UNCHANGED notWidth

CallRenderSubtitle ==
    /\ cell' = RenderSubtitle(cell)
    /\ cellop' = "render_subtitle"
    /\ UNCHANGED notWidth

WidthInit ==
    /\ \E w \in 0..MaxWidth, tl \in 0..MaxTitleLen, sl \in 0..MaxSubtitleLen :
          cell = CellNew(w, tl, sl)
    /\ cellop = "init"

WidthIdle ==
    /\ cell = CellNew(0, 0, 0)
    /\ cellop = "init"

WidthNext ==
    \/ CallRenderTitle
    \/ CallRenderSubtitle

---------------------------------------------------------------------------
(* _OrderedMetrics: an OrderedDict whose __setitem__ assigns into the      *)
(* Metric a key already holds.  An entry is a Metric object (its identity  *)
(* id, its class and its value; for a TotalAndSec the value of its total   *)
(* cell) or a raw Python value.                                            *)

Keys == {"a", "b"}

MetricTypes == {"Int", "Float", "DeltaTime", "TotalAndSec"}

\* The class attribute `value`: 0, 0.0, None; a TotalAndSec's total is an Int.
DefaultValue(type) ==
    CASE type = "Float" -> FloatV(0, 1)
      [] type = "DeltaTime" -> NoneV
      [] OTHER -> IntV(0)

MetricObj(id, type) ==
    [kind |-> "metric", id |-> id, type |-> type, value |-> DefaultValue(type)]

Raw(v) == [kind |-> "raw", id |-> 0, type |-> "", value |-> v]

\* OrderedDict.__setitem__: a new key goes to the end of the order.
Orig(m, o, key, arg) ==
    [metrics |-> [k \in DOMAIN m \cup {key} |-> IF k = key THEN arg ELSE m[k]],
     order   |-> IF key \in DOMAIN m THEN o ELSE Append(o, key),
     result  |-> "ok"]

Same(m, o, result) == [metrics |-> m, order |-> o, result |-> result]

\* `value is isinstance(value, _MetricBase)`: isinstance gives True for a
\* Metric and False otherwise, so the test holds for the value False alone.
IsItsOwnIsinstance(arg) == arg.kind = "raw" /\ arg.value = BoolV(FALSE)

\* _OrderedMetrics.__setitem__(key, arg)
SetItem(m, o, key, arg) ==
    IF IsItsOwnIsinstance(arg) THEN Orig(m, o, key, arg)
    ELSE IF key \notin DOMAIN m THEN Orig(m, o, key, arg)
    ELSE LET item == m[key]
         IN  IF item.kind = "metric"
             THEN IF arg.kind = "raw" /\ arg.value = NoneV
                  THEN Same(m, o, "ok")
                  ELSE IF ValueType(item.type) = ""
                       THEN Same(m, o, "AssertionError")
                       ELSE IF arg.kind = "metric"
                            \* int(metric), float(metric)
                            THEN Same(m, o, "TypeError")
                            ELSE Same([m EXCEPT ![key].value =
                                           Coerce(item.type, arg.value)],
                                      o, "ok")
             ELSE Orig(m, o, key, arg)

\* item.__iadd__(x): TotalAndSec passes it on to its total cell.
MetricIAdd(item, x) == [item EXCEPT !.value = IAddValue(@, x)]

\* item.__isub__(x): TotalAndSec.__isub__ is `self.total += value`.
MetricISub(item, x) ==
    IF item.type = "TotalAndSec"
    THEN [item EXCEPT !.value = IAddValue(@, x)]
    ELSE [item EXCEPT !.value = ISubValue(@, x)]

\* `m[key] += x` / `m[key] -= x`: __getitem__, the in-place operation (a
\* Metric's returns None, a raw number gives a new number), __setitem__.
InPlace(m, o, key, x, sub) ==
    IF key \notin DOMAIN m THEN Same(m, o, "KeyError")
    ELSE LET item == m[key]
         IN  IF item.kind = "metric"
             THEN LET m2 == [m EXCEPT ![key] = IF sub THEN MetricISub(item, x)
                                               ELSE MetricIAdd(item, x)]
                  IN  SetItem(m2, o, key, Raw(NoneV))
             ELSE IF item.value = NoneV THEN Same(m, o, "TypeError")
             ELSE SetItem(m, o, key,
                          Raw(IF sub THEN PySub(item.value, x)
                              ELSE PyAdd(item.value, x)))

Scalars == {NoneV, BoolV(FALSE), BoolV(TRUE), FloatV(3, 2)}

Steps == {IntV(1)}

Small(v) == Abs(v.n) <= MaxValue * v.d

\* m[key] = value for a scalar (or None)
MapSetScalar(key, v) ==
    /\ LET r == SetItem(metrics, order, key, Raw(v))
       IN  /\ metrics' = r.metrics
           /\ order' = r.order
           /\ mapop' = [name |-> "set", key |-> key, arg |-> Raw(v),
                        result |-> r.result]
    /\ UNCHANGED <<created, notMap>>

\* m[key] = Class(...) for a newly constructed Metric
MapSetMetric(key, type) ==
    /\ created < MaxMetrics
    /\ created' = created + 1
    /\ LET arg == MetricObj(created + 1, type)
           r   == SetItem(metrics, order, key, arg)
       IN  /\ metrics' = r.metrics
           /\ order' = r.order
           /\ mapop' = [name |-> "set", key |-> key, arg |-> arg,
                        result |-> r.result]
    /\ UNCHANGED notMap

\* m[key] += x
MapIAdd(key, x) ==
    /\ key \in DOMAIN metrics => Small(metrics[key].value)
    /\ LET r == InPlace(metrics, order, key, x, FALSE)
       IN  /\ metrics' = r.metrics
           /\ order' = r.order
           /\ mapop' = [name |-> "iadd", key |-> key, arg |-> Raw(x),
                        result |-> r.result]
    /\ UNCHANGED <<created, notMap>>

\* m[key] -= x
MapISub(key, x) ==
    /\ key \in DOMAIN metrics => Small(metrics[key].value)
    /\ LET r == InPlace(metrics, order, key, x, TRUE)
       IN  /\ metrics' = r.metrics
           /\ order' = r.order
           /\ mapop' = [name |-> "isub", key |-> key, arg |-> Raw(x),
                        result |-> r.result]
    /\ UNCHANGED <<created, notMap>>

MapInit ==
    /\ metrics = [k \in {} |-> Raw(NoneV)]
    /\ order = <<>>
    /\ created = 0
    /\ mapop = [name |-> "init", key |-> "", arg |-> Raw(NoneV), result |-> "ok"]

MapIdle == MapInit

MapNext ==
    \/ \E key \in Keys, v \in Scalars : MapSetScalar(key, v)
    \/ \E key \in Keys, type \in MetricTypes : MapSetMetric(key, type)
    \/ \E key \in Keys, x \in Steps : MapIAdd(key, x)
    \/ \E key \in Keys, x \in Steps : MapISub(key, x)

---------------------------------------------------------------------------
(* Timecard: a table with an Int "count" and a Timeit "timeit" attached in *)
(* that order, and a csv file.  The text written to stdout and the render  *)
(* caches behind it are left out here (see RenderSubtitle).                *)

RECURSIVE Pow(_, _)
Pow(b, e) == IF e = 0 THEN 1 ELSE b * Pow(b, e - 1)

RECURSIVE Log2(_)
Log2(d) == IF d <= 1 THEN 0 ELSE 1 + Log2(d \div 2)

RECURSIVE Digits(_, _)
Digits(x, places) ==
    IF places = 0 THEN ""
    ELSE Digits(x \div 10, places - 1) \o ToString(x % 10)

RECURSIVE StripZeros(_, _)
StripZeros(x, places) ==
    IF places > 1 /\ x % 10 = 0 THEN StripZeros(x \div 10, places - 1)
    ELSE Digits(x, places)

\* str(value) of a float of v tenths of a second, as seconds: v = n / 2^k
\* tenths is n * 5^k / 10^(k+1) seconds, printed without trailing zeros
\* (the values of this model have fewer than 12 significant digits and are
\* at least 0.0001, so str() prints them in this form).
FloatStr(v) ==
    LET k      == Log2(v.d)
        places == k + 1
        num    == v.n * Pow(5, k)
        unit   == Pow(10, places)
    IN  ToString(num \div unit) \o "." \o StripZeros(num % unit, places)

\* _MetricBase.to_csv of an Int: str(self), " " for None.
IntToCsv(v) == IF v = NoneV THEN " " ELSE ToString(v.n)

\* DeltaTime.to_csv: "" for None, else str(self.value).
DeltaTimeToCsv(v) == IF v = NoneV THEN "" ELSE FloatStr(v)

\* ">{:.1f}s".format(lim) for a limit of l tenths of a second
BucketTitle(l) == ">" \o ToString(l \div 10) \o "." \o ToString(l % 10) \o "s"

RECURSIVE Reverse(_)
Reverse(q) == IF q = <<>> THEN <<>> ELSE Reverse(Tail(q)) \o <<q[1]>>

\* The limits in the order of the Timeit's bucket children (ascending).
BucketOrder(t) == Reverse(t.limits)

\* write_headers: the csv header row, "{title}_{child title}" for the
\* children of a MultiMetric and the title of a metric without subtitle.
HeaderRow(tb) ==
    <<"count">>
    \o <<"timeit_min", "timeit_avr", "timeit_max">>
    \o [i \in 1..Len(tb.tm.limits) |->
            "timeit_" \o BucketTitle(BucketOrder(tb.tm)[i])]

\* sub.to_csv() for the children of the Timeit, in order.
TimeitToCsv(t) ==
    <<DeltaTimeToCsv(t.min), DeltaTimeToCsv(t.average), DeltaTimeToCsv(t.max)>>
    \o [i \in 1..Len(t.limits) |-> IntToCsv(IntV(t.bucket[BucketOrder(t)[i]]))]

\* The loop of write_line with reset() called before to_csv().
MutWriteLineResetsFirst(tb, fix) ==
    LET after == [tb EXCEPT !.tm = IF fix THEN TimeitReset(@) ELSE @]
    IN  [csv   |-> <<IntToCsv(after.count)>> \o TimeitToCsv(after.tm),
         table |-> after]

\* The loop of write_line over the metrics: render the cell, collect the
\* csv values, then reset() when fix.  Int.reset is the no-op of the base.
WriteLineMetrics(tb, fix) ==
    [csv   |-> <<IntToCsv(tb.count)>> \o TimeitToCsv(tb.tm),
     table |-> [tb EXCEPT !.tm = IF fix THEN TimeitReset(@) ELSE @]]

TableLimits == <<1, 2>>

TableNew ==
    [count |-> IntV(0), tm |-> TimeitNew(TableLimits), increments |-> 0,
     sampled |-> 0]

\* table["count"] += 1
TableCount ==
    /\ table.increments < MaxCount
    /\ table' = [table EXCEPT !.count = IAddValue(@, IntV(1)),
                              !.increments = @ + 1]
    /\ tableop' = [name |-> "iadd", fix |-> FALSE]
    /\ UNCHANGED <<csvfile, commits, last_line_fixed, notTable>>

\* with table.timeit(): ... , a scope left normally after delta tenths
TableSample(delta) ==
    /\ table.sampled < MaxTableSamples
    /\ table' = [table EXCEPT !.tm = TimeitSample(@, FloatV(delta, 1)),
                              !.sampled = @ + 1]
    /\ tableop' = [name |-> "sample", fix |-> FALSE]
    /\ UNCHANGED <<csvfile, commits, last_line_fixed, notTable>>

\* table.write_headers(): _write_csv_row(header_row, rewrite=True)
WriteHeaders ==
    /\ csvfile' = <<HeaderRow(table)>>
    /\ commits' = [headed |-> TRUE, rows |-> <<>>]
    /\ tableop' = [name |-> "write_headers", fix |-> FALSE]
    /\ UNCHANGED <<table, last_line_fixed, notTable>>

\* table.write_line(fix)
WriteLine(fix) ==
    /\ fix => Len(csvfile) <= MaxRows
    /\ LET r == WriteLineMetrics(table, fix)
       IN  /\ table' = r.table
           /\ csvfile' = IF fix THEN Append(csvfile, r.csv) ELSE csvfile
    /\ commits' = IF fix /\ commits.headed
                  THEN [commits EXCEPT !.rows = Append(@, table)]
                  ELSE commits
    /\ last_line_fixed' = fix
    /\ tableop' = [name |-> "write_line", fix |-> fix]
    /\ UNCHANGED notTable

TableInit ==
    /\ table = TableNew
    /\ csvfile = <<>>
    /\ commits = [headed |-> FALSE, rows |-> <<>>]
    /\ last_line_fixed = FALSE
    /\ tableop = [name |-> "init", fix |-> FALSE]

TableIdle == TableInit

TableNext ==
    \/ TableCount
    \/ \E delta \in 0..MaxDelta : TableSample(delta)
    \/ WriteHeaders
    \/ \E fix \in BOOLEAN : WriteLine(fix)

---------------------------------------------------------------------------
SpecTimeitInit == TimeitInit /\ RateIdle /\ MapIdle /\ WidthIdle /\ TableIdle

SpecTimeit == SpecTimeitInit /\ [][TimeitNext]_vars

---------------------------------------------------------------------------
(* What the exits of the history should have left in the Timeit.           *)

\* The exits whose sample is to be recorded: all but an Exception raised in
\* a scope entered without exception_ok=True (failed).
Counted(e) == ~e.failed

Durations(es) == [i \in 1..Len(es) |-> es[i].delta]

Smallest(S) == CHOOSE x \in S : \A y \in S : x <= y
Largest(S) == CHOOSE x \in S : \A y \in S : x >= y

Front(s) == SubSeq(s, 1, Len(s) - 1)

\* a1 = d1, a(k+1) = (a(k) + d(k+1)) / 2
RECURSIVE Recurrence(_)
Recurrence(ds) ==
    IF Len(ds) = 1 THEN FloatV(ds[1], 1)
    ELSE LET a == Recurrence(Front(ds))
         IN  FloatV(a.n + ds[Len(ds)] * a.d, 2 * a.d)

\* The largest limit <= d, or 0 when d is below every limit.
LargestLimitLe(L, d) ==
    IF \E l \in L : l <= d THEN Largest({l \in L : l <= d}) ELSE 0

BucketSum(t) ==
    LET RECURSIVE Sum(_)
        Sum(S) == IF S = {} THEN 0
                  ELSE LET x == CHOOSE x \in S : TRUE
                       IN  t.bucket[x] + Sum(S \ {x})
    IN  Sum(DOMAIN t.bucket)

\* The Timeit holds exactly the samples ds (durations, in order).
Holds(t, ds) ==
    /\ IF Len(ds) = 0
       THEN t.min = NoneV /\ t.average = NoneV /\ t.max = NoneV
       ELSE /\ t.min = FloatV(Smallest(SeqRange(ds)), 1)
            /\ t.max = FloatV(Largest(SeqRange(ds)), 1)
            /\ t.average = Recurrence(ds)
    /\ \A l \in DOMAIN t.bucket :
          t.bucket[l] = Cardinality({i \in 1..Len(ds) :
                                        LargestLimitLe(DOMAIN t.bucket, ds[i]) = l})

CountedDurations == Durations(SelectSeq(exits, Counted))

\* C1 (as claimed): every exit of the scope records exactly one sample, also
\* an exception without exception_ok, which propagates after the sample.
C1_EveryExitRecords ==
    /\ Holds(timeit, Durations(exits))
    /\ (outcome.kind = "exception" /\ ~outcome.exception_ok) => outcome.propagated

\* C1 (amended): a normal exit, an exception under exception_ok=True and an
\* uncaught BaseException each record exactly one sample; an Exception
\* without exception_ok=True propagates and records no sample.
C1_ExitRecordsUnlessNotOk ==
    /\ Holds(timeit, CountedDurations)
    /\ (outcome.kind = "exception" /\ ~outcome.exception_ok) => outcome.propagated

C1_Witness ==
    /\ outcome.kind = "exception" /\ ~outcome.exception_ok
    /\ Len(exits) = 2 /\ Len(CountedDurations) = 1
    /\ exits[2].failed
    /\ exits[2].delta # exits[1].delta

\* C3: after samples d1..dn (n >= 1) since the last reset, min is the
\* smallest, max the largest, and average follows a1 = d1,
\* a(k+1) = (a(k) + d(k+1)) / 2.
C3_MinAvgMax ==
    Len(CountedDurations) >= 1 =>
        /\ timeit.min = FloatV(Smallest(SeqRange(CountedDurations)), 1)
        /\ timeit.max = FloatV(Largest(SeqRange(CountedDurations)), 1)
        /\ timeit.average = Recurrence(CountedDurations)

C3_Witness ==
    /\ Len(CountedDurations) = 3
    /\ CountedDurations[1] < CountedDurations[2]
    /\ CountedDurations[3] < CountedDurations[1]
    /\ timeit.average # FloatV(CountedDurations[1] + CountedDurations[2]
                                 + CountedDurations[3], 3)

\* C4: each sample increments only the bucket of the largest limit <= d, by
\* one, and none when d is below every limit; the buckets sum to the number
\* of samples with d >= the smallest limit.
C4_Buckets ==
    /\ \A l \in DOMAIN timeit.bucket :
          timeit.bucket[l] =
              Cardinality({i \in 1..Len(CountedDurations) :
                  LargestLimitLe(DOMAIN timeit.bucket, CountedDurations[i]) = l})
    /\ DOMAIN timeit.bucket # {} =>
          BucketSum(timeit) =
              Cardinality({i \in 1..Len(CountedDurations) :
                  CountedDurations[i] >= Smallest(DOMAIN timeit.bucket)})

C4_Witness ==
    /\ Cardinality(DOMAIN timeit.bucket) >= 2
    /\ Len(CountedDurations) = 3
    /\ \E l \in DOMAIN timeit.bucket : timeit.bucket[l] = 2
    /\ BucketSum(timeit) = 2
    /\ timeit.bucket[Smallest(DOMAIN timeit.bucket)] = 0

\* C9 (as claimed): under exception_ok=True an exception is recorded and
\* suppressed.
C9_Suppressed ==
    (outcome.kind = "exception" /\ outcome.exception_ok) =>
        /\ Holds(timeit, CountedDurations)
        /\ exits # <<>> => Counted(exits[Len(exits)])
        /\ ~outcome.propagated

\* C9 (amended): under exception_ok=True an exception is recorded as a
\* sample and then propagates to the caller.
C9_RecordedThenRaised ==
    (outcome.kind = "exception" /\ outcome.exception_ok) =>
        /\ Holds(timeit, CountedDurations)
        /\ exits # <<>> => Counted(exits[Len(exits)])
        /\ outcome.propagated

C9_Witness ==
    /\ outcome.kind = "exception" /\ outcome.exception_ok
    /\ Len(exits) = 2 /\ exits[2].delta > exits[1].delta
    /\ timeit.max = FloatV(exits[2].delta, 1)

---------------------------------------------------------------------------
SpecRateInit == RateInit /\ TimeitIdle /\ MapIdle /\ WidthIdle /\ TableIdle

SpecRate == SpecRateInit /\ [][RateNext]_vars

SpecWidthInit == WidthInit /\ TimeitIdle /\ MapIdle /\ RateIdle /\ TableIdle

SpecWidth == SpecWidthInit /\ [][WidthNext]_vars

SameNumber(a, b) == IsNumber(a) /\ IsNumber(b) /\ a.n * b.d = b.n * a.d

RateUntouched ==
    /\ rate'.persec = rate.persec
    /\ rate'.last_snap = rate.last_snap
    /\ rate'.last_time = rate.last_time

\* C2 (as claimed): a committed render at least 0.9 s after the last rate
\* computation sets persec to (total_now - snapshot) / elapsed and moves the
\* snapshot and timestamp to total_now and now; an earlier one, and every
\* provisional render, leaves persec, snapshot and timestamp as they were.
C2_RateIsQuotient ==
    [][/\ rateop' = "render_commit" =>
             IF now - rate.last_time >= RateGate
             THEN /\ SameNumber(rate'.persec,
                        FloatV((rate.total.n - rate.last_snap.n) * 10,
                               now - rate.last_time))
                  /\ rate'.last_snap = rate.total
                  /\ rate'.last_time = now
             ELSE RateUntouched
       /\ rateop' = "render_provisional" => RateUntouched]_vars

\* C2 (amended): as claimed, except that persec becomes the quotient
\* converted to the rate cell's value type: the float itself for
\* TotalAndSec, the quotient truncated to an integer for Traffic.
C2_RateIsConvertedQuotient ==
    [][/\ rateop' = "render_commit" =>
             IF now - rate.last_time >= RateGate
             THEN /\ rate'.persec =
                        (IF rate.kind = "Traffic"
                         THEN PyInt(FloatV((rate.total.n - rate.last_snap.n) * 10,
                                           now - rate.last_time))
                         ELSE FloatV((rate.total.n - rate.last_snap.n) * 10,
                                     now - rate.last_time))
                  /\ rate'.last_snap = rate.total
                  /\ rate'.last_time = now
             ELSE RateUntouched
       /\ rateop' = "render_provisional" => RateUntouched]_vars

C2_Witness ==
    /\ rateop = "render_commit"
    /\ rate.kind = "Traffic"
    /\ rate.last_time = now /\ now >= StartTime + 2 * RateGate
    /\ rate.last_snap = rate.total /\ rate.total.n = 2
    /\ rate.persec = IntV(1)

\* C10 (as claimed): once rendered, the width is
\* max(max(class width, len(subtitle)), len(title) + 2).
C10_WidthPadsTitle ==
    cell.rendered_subtitle # NotRendered =>
        cell.width = Max(Max(cell.class_width, cell.subtitle_len),
                         cell.title_len + 2)

\* C10 (amended): once rendered, the width is max(class width,
\* len(subtitle)) when that is at least len(title), and len(title) + 2
\* otherwise; so it is at least len(title) and len(subtitle), and later
\* render calls leave it as it is.
C10_WidthFitsTitle ==
    cell.rendered_subtitle # NotRendered =>
        /\ cell.width =
              (IF Max(cell.class_width, cell.subtitle_len) >= cell.title_len
               THEN Max(cell.class_width, cell.subtitle_len)
               ELSE cell.title_len + 2)
        /\ cell.width >= cell.title_len
        /\ cell.width >= cell.subtitle_len

C10_Witness ==
    /\ cell.rendered_subtitle # NotRendered /\ cell.rendered_title # NotRendered
    /\ cell.title_len = cell.class_width /\ cell.class_width = MaxWidth
    /\ cell.width = cell.title_len
    /\ cellop = "render_subtitle"

---------------------------------------------------------------------------
SpecMapInit == MapInit /\ TimeitIdle /\ RateIdle /\ WidthIdle /\ TableIdle

SpecMap == SpecMapInit /\ [][MapNext]_vars

HeldMetric(key) == key \in DOMAIN metrics /\ metrics[key].kind = "metric"

\* C7: setting a key that holds a Metric to a Metric makes the key map to
\* the new Metric; setting it to an integer, float or boolean keeps the
\* Metric, with the value converted to its value type; the keys, their
\* order, and the fact that the key holds a Metric all stay.
C7_SetKeepsMetrics ==
    [][(mapop'.name = "set" /\ HeldMetric(mapop'.key)) =>
          LET key == mapop'.key
              arg == mapop'.arg
          IN  /\ arg.kind = "metric" => metrics'[key] = arg
              /\ (arg.kind = "raw" /\ IsNumber(arg.value)
                  /\ ValueType(metrics[key].type) # "") =>
                    metrics'[key] = [metrics[key] EXCEPT
                        !.value = Coerce(metrics[key].type, arg.value)]
              /\ metrics'[key].kind = "metric"
              /\ DOMAIN metrics' = DOMAIN metrics
              /\ order' = order]_vars

\* C8: += x and -= x on a key holding an Int, Float, DeltaTime or
\* TotalAndSec give v + x and v - x on a set value v, and x on an unset
\* value; the key maps to the same Metric afterwards.
C8_AccumulateDeaccumulate ==
    [][(mapop'.name \in {"iadd", "isub"} /\ HeldMetric(mapop'.key)) =>
          LET key == mapop'.key
              x   == mapop'.arg.value
              v   == metrics[key].value
          IN  metrics'[key] = [metrics[key] EXCEPT !.value =
                  IF v = NoneV THEN x
                  ELSE IF mapop'.name = "iadd" THEN PyAdd(v, x)
                  ELSE PySub(v, x)]]_vars

---------------------------------------------------------------------------
SpecTableInit == TableInit /\ TimeitIdle /\ RateIdle /\ WidthIdle /\ MapIdle

SpecTable == SpecTableInit /\ [][TableNext]_vars

TimeitIsReset(t) ==
    /\ t.min = NoneV /\ t.average = NoneV /\ t.max = NoneV
    /\ \A l \in DOMAIN t.bucket : t.bucket[l] = 0

\* C5: write_line(fix=True) leaves the attached Timeit with min, average and
\* max unset and every bucket at 0; write_line(fix=False) leaves its min,
\* average, max and buckets as they were.
C5_ResetOnCommitOnly ==
    [][tableop'.name = "write_line" =>
          IF tableop'.fix THEN TimeitIsReset(table'.tm)
          ELSE table'.tm = table.tm]_vars

C5_Witness ==
    /\ tableop.name = "write_line" /\ tableop.fix
    /\ TimeitIsReset(table.tm)
    /\ Len(csvfile) >= 1
    /\ csvfile[Len(csvfile)][2] # ""
    /\ csvfile[Len(csvfile)][5] = "1"
    /\ csvfile[Len(csvfile)][6] = "1"

\* The values persisted for the metrics as they were at a commit.
PersistedRow(snapshot) ==
    <<IF snapshot.count = NoneV THEN " " ELSE ToString(snapshot.count.n),
      IF snapshot.tm.min = NoneV THEN "" ELSE FloatStr(snapshot.tm.min),
      IF snapshot.tm.average = NoneV THEN "" ELSE FloatStr(snapshot.tm.average),
      IF snapshot.tm.max = NoneV THEN "" ELSE FloatStr(snapshot.tm.max)>>
    \o [i \in 1..Cardinality(DOMAIN snapshot.tm.bucket) |->
          LET l == CHOOSE l \in DOMAIN snapshot.tm.bucket :
                      Cardinality({x \in DOMAIN snapshot.tm.bucket : x < l}) = i - 1
          IN  ToString(snapshot.tm.bucket[l])]

\* C6: after write_headers and any write_line calls the file holds the
\* header row and then one row per write_line(fix=True), in call order,
\* each with as many columns as the header and the values the metrics had
\* at that commit before reset; write_line(fix=False) adds nothing.
C6_FileIsHeaderAndCommits ==
    commits.headed =>
        /\ Len(csvfile) = 1 + Len(commits.rows)
        /\ csvfile[1] = HeaderRow(table)
        /\ \A i \in 1..Len(commits.rows) :
              /\ csvfile[i + 1] = PersistedRow(commits.rows[i])
              /\ Len(csvfile[i + 1]) = Len(csvfile[1])

C6_Witness ==
    /\ commits.headed
    /\ Len(csvfile) = 3
    /\ csvfile[2] # csvfile[3]
    /\ csvfile[2][1] = "0" /\ csvfile[3][1] = "1"
    /\ csvfile[2][3] = "0.05"
    /\ tableop = [name |-> "write_line", fix |-> FALSE]

=============================================================================
